---- MODULE Spec2Model ----
(***************************************************************************)
(* The context-aware retrieval subsystem of CentrAlignWebapp:              *)
(* generateEmbedding / simpleHashEmbedding, cosineSimilarity,              *)
(* retrieveRelevantForms and the forms router that calls them.             *)
(*                                                                         *)
(* Texts are sequences of UTF-16 code units.  Floating-point arithmetic is *)
(* modelled as exact real arithmetic: an array entry is an integer over    *)
(* the square root of an integer, and every comparison is carried out on   *)
(* integers.                                                               *)
(***************************************************************************)
EXTENDS Integers, Sequences, FiniteSets, TLC

\* ------------------------------------------------------------------ bounds
MaxK == 2            \* topK of a direct call ranges over -NegK .. MaxK
NegK == 1
MaxStore == 3        \* largest number of forms in the initial record store
MaxNewForms == 1     \* forms POST /generate may add during a run
MaxDeletes == 1      \* DELETE /:id requests that succeed during a run
MaxTextLen == 2      \* longest text of a direct generateEmbedding call
MaxDim == 3          \* longest array of a direct cosineSimilarity call
ScaledLimit == 2     \* the limit of the candidate query when it is scaled down

\* ------------------------------------------------------- program constants
EmbeddingDim == 128  \* new Array(128)
FetchLimit == 1000   \* .limit(1000)
GenerateTopK == 5    \* retrieveRelevantForms(userId, prompt, 5)
Scale == 12          \* unit of the position weights: 1/(index+1) is Scale \div (index+1)

\* ------------------------------------------------------------------- texts
Min(a, b) == IF a < b THEN a ELSE b
Max(a, b) == IF a > b THEN a ELSE b
Abs(n) == IF n < 0 THEN -n ELSE n

IsSpace(c) == c \in {9, 10, 11, 12, 13, 32}

\* String.prototype.toLowerCase on the ASCII range
ToLowerCase(text) ==
    [i \in 1..Len(text) |-> IF text[i] \in 65..90 THEN text[i] + 32 ELSE text[i]]

\* text.split(/\s+/): a run of whitespace separates two tokens; leading or
\* trailing whitespace yields an empty token, and "" splits into [""].
\* The positions where a token begins, where the token beginning at i ends,
\* and the tokens in the order of their positions.
WordStarts(text) ==
    { i \in 1..Len(text) : ~IsSpace(text[i]) /\ (i = 1 \/ IsSpace(text[i - 1])) }

WordEnd(text, i) ==
    CHOOSE j \in i..Len(text) :
        /\ \A k \in i..j : ~IsSpace(text[k])
        /\ (j = Len(text) \/ IsSpace(text[j + 1]))

SplitWhitespace(text) ==
    LET starts == WordStarts(text)
        nth(k) == CHOOSE i \in starts : Cardinality({ j \in starts : j < i }) = k - 1
        words == [k \in 1..Cardinality(starts) |-> SubSeq(text, nth(k), WordEnd(text, nth(k)))]
        empty == << <<>> >>
    IN  IF Len(text) = 0 THEN empty
        ELSE (IF IsSpace(text[1]) THEN empty ELSE <<>>)
             \o words
             \o (IF IsSpace(text[Len(text)]) THEN empty ELSE <<>>)

\* ------------------------------------------------------------ string hash
\* hash = ((hash << 5) - hash) + charCode; hash = hash & hash
\* i.e. hash := ToInt32(31 * hash + charCode).  The 32-bit value is kept as
\* two 16-bit limbs <<hi, lo>> (two's complement) so that no step overflows.
HashStep(h, c) ==
    LET lo == 31 * h[2] + c
        hi == 31 * h[1] + (lo \div 65536)
    IN  <<hi % 65536, lo % 65536>>

RECURSIVE HashFrom(_, _, _)
HashFrom(word, i, h) ==
    IF i > Len(word) THEN h ELSE HashFrom(word, i + 1, HashStep(h, word[i]))

WordHash(word) == HashFrom(word, 1, <<0, 0>>)

HashIsNegative(h) == h[1] >= 32768

\* mutant: hash % embedding.length without Math.abs; the remainder takes the
\* sign of the hash
BucketIndexSigned(word) ==
    LET h == WordHash(word)
    IN  IF HashIsNegative(h)
        THEN 0 - ((EmbeddingDim - (h[2] % EmbeddingDim)) % EmbeddingDim)
        ELSE h[2] % EmbeddingDim

\* Math.abs(hash) % embedding.length, with embedding.length = 128 dividing 2^16
BucketIndex(word) ==
    LET h == WordHash(word)
    IN  IF HashIsNegative(h)
        THEN (EmbeddingDim - (h[2] % EmbeddingDim)) % EmbeddingDim
        ELSE h[2] % EmbeddingDim

\* -------------------------------------------------------------- embedding
\* A number[] is kept sparsely: [dim, nz, den] stands for the array of
\* length dim whose entry at index i (0-based) is nz[i] / sqrt(den) for i in
\* DOMAIN nz and 0 elsewhere.
NoEntries == [i \in {} |-> 0]

At(v, i) == IF i \in DOMAIN v.nz THEN v.nz[i] ELSE 0

RECURSIVE SumOver(_, _)
SumOver(f, S) ==
    IF S = {} THEN 0
    ELSE LET i == CHOOSE j \in S : TRUE
         IN  f[i] + SumOver(f, S \ {i})

\* sum of a[i] * b[i] over the indices of the arrays; a zero entry adds nothing
DotProduct(a, b) ==
    LET common == DOMAIN a.nz \cap DOMAIN b.nz
    IN  SumOver([i \in common |-> a.nz[i] * b.nz[i]], common)

SumSquares(v) == DotProduct(v, v)

\* mutant: embedding[idx] = 1 / (index + 1), a later token of a bucket
\* replaces the weight of an earlier one
AccumulateOverwriting(words) ==
    LET idx == [i \in 1..Len(words) |-> BucketIndex(words[i])]
        hit == { idx[i] : i \in 1..Len(words) }
        last(b) == CHOOSE i \in 1..Len(words) :
                      idx[i] = b /\ \A j \in (i + 1)..Len(words) : idx[j] # b
    IN  [b \in hit |-> Scale \div last(b)]

\* lines 33-44: the bucket array before normalisation, in units of 1/Scale
Accumulate(words) ==
    LET idx == [i \in 1..Len(words) |-> BucketIndex(words[i])]
        hit == { idx[i] : i \in 1..Len(words) }
        weight == [i \in 1..Len(words) |-> Scale \div i]
    IN  [b \in hit |-> SumOver(weight, { i \in 1..Len(words) : idx[i] = b })]

\* mutant: the bucket array returned without the normalisation of lines 46-50
simpleHashEmbeddingUnnormalized(text) ==
    LET words == SplitWhitespace(ToLowerCase(text))
    IN  [dim |-> EmbeddingDim, nz |-> Accumulate(words), den |-> Scale * Scale]

simpleHashEmbedding(text) ==
    LET words == SplitWhitespace(ToLowerCase(text))
        embedding == [dim |-> EmbeddingDim, nz |-> Accumulate(words), den |-> Scale * Scale]
        magnitude2 == SumSquares(embedding)
    IN  IF magnitude2 > 0
        THEN [embedding EXCEPT !.den = magnitude2]
        ELSE embedding

generateEmbedding(text) == simpleHashEmbedding(text)

\* --------------------------------------------------------------- similarity
\* compares the fractions a/b and c/d (a, c >= 0; b, d > 0): -1, 0 or 1
RECURSIVE CmpFrac(_, _, _, _)
CmpFrac(a, b, c, d) ==
    LET q1 == a \div b
        q2 == c \div d
        r1 == a % b
        r2 == c % d
    IN  IF q1 # q2 THEN (IF q1 < q2 THEN -1 ELSE 1)
        ELSE IF r1 = 0 /\ r2 = 0 THEN 0
        ELSE IF r1 = 0 THEN -1
        ELSE IF r2 = 0 THEN 1
        ELSE CmpFrac(d, r2, b, r1)

\* A similarity is [num, den2], the real number num / sqrt(den2).
ZeroSim == [num |-> 0, den2 |-> 1]

\* mutant: without the length test of line 58
cosineSimilarityNoLengthCheck(a, b) ==
    LET dotProduct == DotProduct(a, b)
        normA == SumSquares(a)
        normB == SumSquares(b)
    IN  IF normA = 0 \/ normB = 0 THEN ZeroSim
        ELSE [num |-> dotProduct, den2 |-> normA * normB]

cosineSimilarity(a, b) ==
    IF a.dim # b.dim THEN ZeroSim
    ELSE LET dotProduct == DotProduct(a, b)
             normA == SumSquares(a)
             normB == SumSquares(b)
         IN  IF normA = 0 \/ normB = 0 THEN ZeroSim
             ELSE [num |-> dotProduct, den2 |-> normA * normB]

\* sign of s - t
SimCompare(s, t) ==
    IF s.num >= 0 /\ t.num >= 0
    THEN CmpFrac(s.num * s.num, s.den2, t.num * t.num, t.den2)
    ELSE IF s.num < 0 /\ t.num < 0
    THEN CmpFrac(t.num * t.num, t.den2, s.num * s.num, s.den2)
    ELSE IF s.num < 0 THEN -1 ELSE 1

\* mutant: the threshold test written item.similarity >= 0.1
AtLeastThreshold(s) == s.num > 0 /\ CmpFrac(s.num * s.num, s.den2, 1, 100) >= 0

\* item.similarity > 0.1
AboveThreshold(s) == s.num > 0 /\ CmpFrac(s.num * s.num, s.den2, 1, 100) = 1

\* ---------------------------------------------------------------- binary64
\* dotProduct / (Math.sqrt(normA) * Math.sqrt(normB)) as IEEE-754 doubles
\* compute it, for arrays of small integers (their dot product and squared
\* norms are exact).  A natural number is kept as Limbs limbs of LimbBits
\* bits, least significant first; a positive double is [m, e], the number
\* m * 2^e with m of at most MantissaBits bits.
LimbBits == 13
Limbs == 10
MantissaBits == 53
SqrtGuardBits == 60
LimbBase == 2 ^ LimbBits

\* the Limbs limbs F[1], ..., F[Limbs]
Tabulate(F) == <<F[1], F[2], F[3], F[4], F[5], F[6], F[7], F[8], F[9], F[10]>>

BigOf(n) ==
    LET limb == [i \in 1..Limbs |->
                   IF i = 1 THEN n % LimbBase
                   ELSE IF i = 2 THEN (n \div LimbBase) % LimbBase
                   ELSE IF i = 3 THEN n \div (LimbBase * LimbBase)
                   ELSE 0]
    IN  Tabulate(limb)

\* brings every limb back into 0 .. LimbBase - 1 (a negative limb borrows)
RECURSIVE Carry(_, _)
Carry(limbs, c) ==
    IF limbs = <<>> THEN <<>>
    ELSE LET v == Head(limbs) + c
         IN  <<v % LimbBase>> \o Carry(Tail(limbs), v \div LimbBase)

BigAdd(x, y) ==
    LET limb == [i \in 1..Limbs |-> x[i] + y[i]]
    IN  Carry(Tabulate(limb), 0)

\* x - y for x >= y
BigSub(x, y) ==
    LET limb == [i \in 1..Limbs |-> x[i] - y[i]]
    IN  Carry(Tabulate(limb), 0)

\* limb k of the product before the carries: the sum of x[i] * y[k + 1 - i]
BigMul(x, y) ==
    LET p(i, k) == IF i <= k THEN x[i] * y[k + 1 - i] ELSE 0
        limb == [k \in 1..Limbs |->
                   p(1, k) + p(2, k) + p(3, k) + p(4, k) + p(5, k)
                   + p(6, k) + p(7, k) + p(8, k) + p(9, k) + p(10, k)]
    IN  Carry(Tabulate(limb), 0)

RECURSIVE BigCmpFrom(_, _, _)
BigCmpFrom(x, y, i) ==
    IF i = 0 THEN 0
    ELSE IF x[i] # y[i] THEN (IF x[i] < y[i] THEN -1 ELSE 1)
    ELSE BigCmpFrom(x, y, i - 1)

BigCmp(x, y) == BigCmpFrom(x, y, Limbs)

Pow2(k) ==
    LET limb == [i \in 1..Limbs |-> IF i = (k \div LimbBits) + 1 THEN 2 ^ (k % LimbBits) ELSE 0]
    IN  Tabulate(limb)

BitLength(x) ==
    IF \A i \in 1..Limbs : x[i] = 0 THEN 0
    ELSE LET top == CHOOSE i \in 1..Limbs :
                        x[i] # 0 /\ \A j \in (i + 1)..Limbs : x[j] = 0
             bits == CHOOSE n \in 1..LimbBits : 2 ^ (n - 1) <= x[top] /\ x[top] < 2 ^ n
         IN  LimbBits * (top - 1) + bits

\* floor(x / 2^t)
ShiftRight(x, t) ==
    LET q == t \div LimbBits
        r == t % LimbBits
        at(i) == IF i <= Limbs THEN x[i] ELSE 0
        limb == [i \in 1..Limbs |->
                   (at(i + q) \div (2 ^ r)) + (at(i + q + 1) % (2 ^ r)) * (2 ^ (LimbBits - r))]
    IN  Tabulate(limb)

\* round to nearest, ties to even, to MantissaBits significant bits
RoundToMantissa(x) ==
    LET t == BitLength(x) - MantissaBits
    IN  IF t <= 0 THEN [m |-> x, e |-> 0]
        ELSE LET q == ShiftRight(x, t)
                 rem == BigSub(x, BigMul(q, Pow2(t)))
                 half == BigCmp(rem, Pow2(t - 1))
                 up == half = 1 \/ (half = 0 /\ q[1] % 2 = 1)
             IN  [m |-> IF up THEN BigAdd(q, BigOf(1)) ELSE q, e |-> t]

\* floor of the square root, one bit at a time: the bits from `bit` down to
\* `low` of the root of x, given the bits above them in r
RECURSIVE IsqrtFrom(_, _, _, _)
IsqrtFrom(x, r, bit, low) ==
    IF bit < low THEN r
    ELSE LET c == BigAdd(r, Pow2(bit))
         IN  IF BigCmp(BigMul(c, c), x) <= 0
             THEN IsqrtFrom(x, c, bit - 1, low)
             ELSE IsqrtFrom(x, r, bit - 1, low)

\* the root of x < 2^(10 * LimbBits), one limb after the other (the tuple
\* lists the partial roots in the order they are computed in)
Isqrt(x) ==
    LET r4 == IsqrtFrom(x, BigOf(0), 5 * LimbBits - 1, 4 * LimbBits)
        r3 == IsqrtFrom(x, r4, 4 * LimbBits - 1, 3 * LimbBits)
        r2 == IsqrtFrom(x, r3, 3 * LimbBits - 1, 2 * LimbBits)
        r1 == IsqrtFrom(x, r2, 2 * LimbBits - 1, LimbBits)
        r0 == IsqrtFrom(x, r1, LimbBits - 1, 0)
    IN  <<r4, r3, r2, r1, r0>>[5]

\* Math.sqrt(n) for an integer 0 < n < 2^10: the root of n * 4^SqrtGuardBits
\* with a sticky bit appended, correctly rounded
DoubleSqrt(n) ==
    LET x == BigMul(BigOf(n), Pow2(2 * SqrtGuardBits))
        root == Isqrt(x)
        sticky == IF BigCmp(BigMul(root, root), x) = 0 THEN 0 ELSE 1
        rounded == <<x, root, RoundToMantissa(BigAdd(BigAdd(root, root), BigOf(sticky)))>>[3]
    IN  [m |-> rounded.m, e |-> rounded.e - SqrtGuardBits - 1]

\* x * y on doubles
DoubleMul(x, y) ==
    LET rounded == RoundToMantissa(BigMul(x.m, y.m))
    IN  [m |-> rounded.m, e |-> rounded.e + x.e + y.e]

DoubleOne == [m |-> BigOf(1), e |-> 0]

\* sign of n - d for a natural number n and a double d = m * 2^e
CmpIntDouble(n, d) ==
    IF d.e >= 0 THEN BigCmp(BigOf(n), BigMul(d.m, Pow2(d.e)))
    ELSE BigCmp(BigMul(BigOf(n), Pow2(0 - d.e)), d.m)

\* sign of q - 1 for the double q the quotient num / den rounds to, num >= 0.
\* Rounding is monotone and 1 is a double; two distinct doubles differ by
\* more than half an ulp of 1 in ratio, so q = 1 exactly when num = den.
QuotientCmpOne(num, den) == CmpIntDouble(num, den)

\* ------------------------------------------------ binary64, the operations
\* The doubles of generateEmbedding and of cosineSimilarity on its vectors
\* are not integers; each operation below returns the correctly rounded
\* result (round to nearest, ties to even) of the exact one.  Zero is
\* [m |-> 0, e |-> 0]; no value of these computations is negative,
\* subnormal or infinite.  A tuple <<a, b>>[2] is b, computed after a.
DoubleZero == [m |-> BigOf(0), e |-> 0]
DoubleOfInt(n) == [m |-> BigOf(n), e |-> 0]
IsDoubleZero(x) == BigCmp(x.m, BigOf(0)) = 0

\* sign of x - y
CmpDouble(x, y) ==
    LET e == Min(x.e, y.e)
    IN  BigCmp(BigMul(x.m, Pow2(x.e - e)), BigMul(y.m, Pow2(y.e - e)))

\* the double rounded * 2^e
Scaled(rounded, e) == [m |-> rounded.m, e |-> rounded.e + e]

\* the double nearest to a number whose integer part is q: to q itself when
\* the number is q exactly, and else to q with a sticky bit appended
RoundWithSticky(q, exact) ==
    Scaled(RoundToMantissa(BigAdd(BigAdd(q, q), BigOf(IF exact THEN 0 ELSE 1))), -1)

\* x + y
DoubleAdd(x, y) ==
    IF IsDoubleZero(x) THEN y
    ELSE IF IsDoubleZero(y) THEN x
    ELSE LET e == Min(x.e, y.e)
         IN  Scaled(RoundToMantissa(BigAdd(BigMul(x.m, Pow2(x.e - e)),
                                           BigMul(y.m, Pow2(y.e - e)))), e)

\* floor(x / y), one bit at a time: the bits from `bit` down to `low` of the
\* quotient, given the bits above them in q
RECURSIVE BigDivFrom(_, _, _, _, _)
BigDivFrom(x, y, q, bit, low) ==
    IF bit < low THEN q
    ELSE LET c == BigAdd(q, Pow2(bit))
         IN  IF BigCmp(BigMul(c, y), x) <= 0
             THEN BigDivFrom(x, y, c, bit - 1, low)
             ELSE BigDivFrom(x, y, q, bit - 1, low)

\* the quotient of x by y when it is below 2^(5 * LimbBits), one limb after
\* the other
BigDiv(x, y) ==
    LET q4 == BigDivFrom(x, y, BigOf(0), 5 * LimbBits - 1, 4 * LimbBits)
        q3 == BigDivFrom(x, y, q4, 4 * LimbBits - 1, 3 * LimbBits)
        q2 == BigDivFrom(x, y, q3, 3 * LimbBits - 1, 2 * LimbBits)
        q1 == BigDivFrom(x, y, q2, 2 * LimbBits - 1, LimbBits)
        q0 == BigDivFrom(x, y, q1, LimbBits - 1, 0)
    IN  <<q4, q3, q2, q1, q0>>[5]

\* n / y * 2^e for the natural numbers n and y, given q = floor(n / y)
QuotientRounded(n, y, q, e) ==
    <<q, Scaled(RoundWithSticky(q, BigCmp(BigMul(q, y), n) = 0), e)>>[2]

\* x / y for y # 0: the quotient of the mantissas to SqrtGuardBits bits and
\* more
DoubleDiv(x, y) ==
    IF IsDoubleZero(x) THEN DoubleZero
    ELSE LET k == BitLength(y.m) + SqrtGuardBits - BitLength(x.m)
         IN  QuotientRounded(BigMul(x.m, Pow2(k)), y.m,
                             BigDiv(BigMul(x.m, Pow2(k)), y.m), x.e - y.e - k)

\* sqrt(n) * 2^e for the natural number n, given root = floor(sqrt(n))
RootRounded(n, root, e) ==
    <<root, Scaled(RoundWithSticky(root, BigCmp(BigMul(root, root), n) = 0), e)>>[2]

\* Math.sqrt(x) for a double x > 0: the root of the mantissa shifted to
\* 2 * SqrtGuardBits bits or one more (so that the exponent left is even)
DoubleSqrtOf(x) ==
    LET s0 == 2 * SqrtGuardBits - BitLength(x.m)
        s == IF (x.e - s0) % 2 = 0 THEN s0 ELSE s0 + 1
    IN  RootRounded(BigMul(x.m, Pow2(s)), Isqrt(BigMul(x.m, Pow2(s))), (x.e - s) \div 2)

\* an array of doubles is kept sparsely, as the function from the indices of
\* its non-zero entries to these entries.
\* The sum of f[i] over S, accumulated in the order of the indices (the zero
\* entries of an array add nothing)
RECURSIVE DoubleSumFrom(_, _, _)
DoubleSumFrom(f, S, sum) ==
    IF S = {} THEN sum
    ELSE LET i == CHOOSE j \in S : \A k \in S : j <= k
         IN  <<sum, DoubleSumFrom(f, S \ {i}, DoubleAdd(sum, f[i]))>>[2]

\* lines 36-44: embedding[idx] += 1 / (index + 1), word after word; a bucket
\* ends as the sum of the weights of its words, added in the order of the
\* words
AccumulateDouble(words) ==
    LET idx == [i \in 1..Len(words) |-> BucketIndex(words[i])]
        hit == { idx[i] : i \in 1..Len(words) }
        weight == [i \in 1..Len(words) |-> DoubleDiv(DoubleOfInt(1), DoubleOfInt(i))]
    IN  NoEntries @@ [b \in hit |->
                        DoubleSumFrom(weight, { i \in 1..Len(words) : idx[i] = b }, DoubleZero)]

SquaresDouble(v) == NoEntries @@ [i \in DOMAIN v |-> DoubleMul(v[i], v[i])]

\* embedding.reduce((sum, val) => sum + val * val, 0) of line 47, and normA,
\* normB of lines 61-68
NormDouble(v) == DoubleSumFrom(SquaresDouble(v), DOMAIN v, DoubleZero)

\* lines 48-51
NormalizeDouble(embedding, magnitude) ==
    <<magnitude,
      IF IsDoubleZero(magnitude) THEN embedding
      ELSE NoEntries @@ [i \in DOMAIN embedding |-> DoubleDiv(embedding[i], magnitude)]>>[2]

\* lines 46-51
NormalizedDouble(embedding) ==
    <<embedding, NormalizeDouble(embedding, DoubleSqrtOf(NormDouble(embedding)))>>[2]

\* simpleHashEmbedding on doubles, lines 31-52
simpleHashEmbeddingDouble(text) ==
    NormalizedDouble(AccumulateDouble(SplitWhitespace(ToLowerCase(text))))

\* ------------------------------------------------- the doubles of a call
\* the texts of the calls followed in binary64: "", " ", "a", "b", " a",
\* "a ", "a b", "b a", "a a", "A b", "ab", and the text embedded for a form
\* generated from the prompt "a" with the title "B", no description and one
\* field "n" of type "text"
DoubleTexts ==
    { <<>>,
      <<32>>,
      <<97>>,
      <<98>>,
      <<32, 97>>,
      <<97, 32>>,
      <<97, 32, 98>>,
      <<98, 32, 97>>,
      <<97, 32, 97>>,
      <<65, 32, 98>>,
      <<97, 98>>,
      <<97, 32, 66, 58, 32, 32, 70, 105, 101, 108, 100, 115, 58, 32, 110, 32, 84, 121, 112, 101, 115, 58, 32, 116, 101, 120, 116>> }

generateEmbeddingDouble == NoEntries @@ [t \in DoubleTexts |-> simpleHashEmbeddingDouble(t)]

\* Math.sqrt on the norms of these arrays
MathSqrtDouble ==
    NoEntries @@ [n \in { NormDouble(generateEmbeddingDouble[t]) : t \in DoubleTexts } |->
                    DoubleSqrtOf(n)]

\* lines 70-71
QuotientOfNorms(dotProduct, normA, normB) ==
    <<dotProduct, normA, normB,
      IF IsDoubleZero(normA) \/ IsDoubleZero(normB) THEN DoubleZero
      ELSE DoubleDiv(dotProduct, DoubleMul(MathSqrtDouble[normA], MathSqrtDouble[normB]))>>[4]

\* cosineSimilarity on two arrays of generateEmbedding, lines 57-72: both are
\* of length 128, the three sums are accumulated index after index, and the
\* result is dotProduct / (Math.sqrt(normA) * Math.sqrt(normB))
cosineSimilarityOfDoubles(a, b) ==
    QuotientOfNorms(DoubleSumFrom([i \in DOMAIN a \cap DOMAIN b |-> DoubleMul(a[i], b[i])],
                                  DOMAIN a \cap DOMAIN b, DoubleZero),
                    NormDouble(a), NormDouble(b))

\* cosineSimilarity(promptEmbedding, form.embedding), lines 97-102, for the prompt
\* p[1] and a form whose embedded text was p[2]
ScoreDouble ==
    NoEntries @@ [p \in DoubleTexts \X DoubleTexts |->
                    cosineSimilarityOfDoubles(generateEmbeddingDouble[p[1]],
                                              generateEmbeddingDouble[p[2]])]

\* --------------------------------------------------------------- JS arrays
\* Array.prototype.slice(0, end)
Slice0(s, end) ==
    LET e == IF end < 0 THEN Max(Len(s) + end, 0) ELSE Min(end, Len(s))
    IN  SubSeq(s, 1, e)

\* Array.prototype.sort((a, b) => b.similarity - a.similarity): a stable sort,
\* so items of equal similarity keep the order they were delivered in.
RECURSIVE InsertBySimilarity(_, _)
InsertBySimilarity(sorted, item) ==
    IF sorted = <<>> THEN <<item>>
    ELSE IF SimCompare(item.similarity, Head(sorted).similarity) = 1
    THEN <<item>> \o sorted
    ELSE <<Head(sorted)>> \o InsertBySimilarity(Tail(sorted), item)

RECURSIVE SortFrom(_, _, _)
SortFrom(items, i, sorted) ==
    IF i > Len(items) THEN sorted
    ELSE SortFrom(items, i + 1, InsertBySimilarity(sorted, items[i]))

\* mutant: the items left in the order they were delivered in
KeepDeliveryOrder(items) == items

SortBySimilarityDesc(items) == SortFrom(items, 1, <<>>)

\* mutant: the threshold filter left out
KeepAll(items) == items

\* .filter(item => item.similarity > 0.1)
FilterRelevant(items) ==
    LET Keep(item) == AboveThreshold(item.similarity)
    IN  SelectSeq(items, Keep)

\* ------------------------------------------------------------ record store
Users == {"u1", "u2"}
\* the embedding field is missing or null (den = 0 marks the absence)
NoEmbedding == [dim |-> 0, nz |-> NoEntries, den |-> 0]
\* an optional string field that is not set
NoValue == "absent"

TextA == <<97>>            \* "a"
TextAB == <<97, 32, 98>>   \* "a b"
TextB == <<98>>            \* "b"
TextSpA == <<32, 65>>      \* " A"
TextSp == <<32>>           \* " "
TextS == <<115>>           \* "s"

\* a stored unit vector whose cosine with the vector of "a" is exactly 0.1:
\* (0.1, 0.9, 0.3, 0.3) on the buckets 97, 1, 2, 3
TenthOfA ==
    [dim |-> EmbeddingDim, nz |-> (97 :> 1) @@ (1 :> 9) @@ (2 :> 3) @@ (3 :> 3), den |-> 100]

\* embedding: [] -- what Mongoose stores for an array path that was never set
EmptyArray == [dim |-> 0, nz |-> NoEntries, den |-> 1]

\* a form's schema: its field definitions, here their label and name
NameField == [label |-> "Full Name", name |-> "fullName"]
EmailField == [label |-> "Email", name |-> "email"]

Form(id, userId, embedding, createdAt, purpose) ==
    [id |-> id, userId |-> userId, title |-> "Form", schema |-> <<NameField, EmailField>>,
     embedding |-> embedding, summary |-> <<>>, purpose |-> purpose,
     createdAt |-> createdAt]

\* documents the forms collection may hold when the server starts
SeedForms ==
    { Form(1, "u1", generateEmbedding(TextA), 1, "job"),
      Form(2, "u1", generateEmbedding(TextAB), 2, "survey"),
      Form(3, "u1", TenthOfA, 2, NoValue),
      Form(4, "u1", NoEmbedding, 3, NoValue),
      Form(5, "u2", generateEmbedding(TextA), 1, "job"),
      Form(6, "u1", generateEmbedding(TextAB), 3, "general"),
      Form(7, "u1", EmptyArray, 3, NoValue) }

\* Date.now() when the server starts: the time of the latest seed document
StartClock == CHOOSE t \in { f.createdAt : f \in SeedForms } :
                 \A f \in SeedForms : f.createdAt <= t
\* the _id the first document saved by POST /generate gets
FirstNewId == Cardinality(SeedForms) + 1

Prompts == { <<>>, TextSp, TextA, TextAB, TextB, TextSpA }
KValues == (0 - NegK) .. MaxK

\* every order in which a cursor may deliver the documents of S
RECURSIVE Orderings(_)
Orderings(S) ==
    IF S = {} THEN { <<>> }
    ELSE UNION { { <<f>> \o rest : rest \in Orderings(S \ {f}) } : f \in S }

IsRecentFirst(s) ==
    \A i \in 1..Len(s) - 1 : s[i].createdAt >= s[i + 1].createdAt

\* Query.limit(n) as MongoDB executes it: 0 means no limit, and a negative
\* number is a limit of its absolute value
Limit(docs, n) ==
    IF n = 0 THEN docs ELSE SubSeq(docs, 1, Min(Abs(n), Len(docs)))

\* mutant: the candidate query without its userId condition
FindCandidatesAnyOwner(st, userId) ==
    { Limit(o, FetchLimit) : o \in Orderings({ f \in st : f.embedding # NoEmbedding }) }

\* Form.find({ userId, embedding: { $exists: true, $ne: null } }).limit(1000)
FindCandidates(st, userId) ==
    { Limit(o, FetchLimit) :
        o \in Orderings({ f \in st : f.userId = userId /\ f.embedding # NoEmbedding }) }

\* Form.find({ userId }).sort({ createdAt: -1 }).limit(topK)
FindRecent(st, userId, topK) ==
    { Limit(o, topK) :
        o \in { q \in Orderings({ f \in st : f.userId = userId }) : IsRecentFirst(q) } }

\* lines 97-111 of retrieveRelevantForms: score, sort, slice, filter, map
SimilarityOf(promptVec, form) ==
    IF form.embedding # NoEmbedding
    THEN cosineSimilarity(promptVec, form.embedding)
    ELSE ZeroSim

RankAndSelect(fetched, promptVec, topK) ==
    LET formsWithSimilarity ==
            [i \in 1..Len(fetched) |->
                [form |-> fetched[i], similarity |-> SimilarityOf(promptVec, fetched[i])]]
        sorted == SortBySimilarityDesc(formsWithSimilarity)
        kept == FilterRelevant(Slice0(sorted, topK))
    IN  [i \in 1..Len(kept) |-> kept[i].form]

\* ------------------------------------------------------------------- state
VARIABLES
    store,            \* the forms collection: a set of documents
    seen,             \* the collection as the request's last query read it
    clock,            \* Date.now()
    created,          \* forms saved by POST /generate so far
    pc,               \* where the request in flight stands
    req,              \* its caller, userId, prompt and topK
    promptEmbedding,  \* retrieveRelevantForms: promptEmbedding
    forms,            \* retrieveRelevantForms: forms, as the find delivered them
    result,           \* the array retrieveRelevantForms resolved with
    path,             \* the return statement that produced it
    queries,          \* store queries retrieveRelevantForms has issued
    log,              \* console.error calls of the request
    draft,            \* POST /generate: the document built by new Form(...)
    context,          \* POST /generate: context
    status,           \* POST /generate: HTTP status of the response, 0 if none
    contextUsed,      \* POST /generate: contextUsed of the 201 response
    deleted,          \* history: the documents DELETE /:id has removed
    call,             \* the last direct call of an exported pure function
    earlier,          \* history: an earlier generateEmbedding call and what it returned
    example           \* the documented example: the forms generated so far, the forms retrieved

vars == <<store, seen, clock, created, pc, req, promptEmbedding, forms, result, path,
          queries, log, draft, context, status, contextUsed, deleted, call, earlier,
          example>>

NoReq == [caller |-> "none", userId |-> "none", prompt |-> <<>>, topK |-> 0]
NoDraft == Form(0, "none", NoEmbedding, 0, NoValue)
NoCall == [fn |-> "none", text |-> <<>>, a |-> NoEmbedding, b |-> NoEmbedding,
           vector |-> NoEmbedding, similarity |-> ZeroSim,
           double |-> [num |-> 0, den |-> DoubleOne],
           texts |-> <<>>, promptDoubles |-> NoEntries, formDoubles |-> NoEntries,
           score |-> DoubleZero]
NoEarlier == [text |-> <<>>, vector |-> NoEmbedding, between |-> FALSE]
NoExample == [history |-> <<>>, retrieved |-> {}, done |-> FALSE]

InitStores == { S \in SUBSET SeedForms : Cardinality(S) <= MaxStore }

Init ==
    /\ store \in InitStores
    /\ seen = {}
    /\ clock = StartClock
    /\ created = 0
    /\ pc = "idle"
    /\ req = NoReq
    /\ promptEmbedding = NoEmbedding
    /\ forms = <<>>
    /\ result = <<>>
    /\ path = "none"
    /\ queries = 0
    /\ log = {}
    /\ draft = NoDraft
    /\ context = <<>>
    /\ status = 0
    /\ contextUsed = 0
    /\ deleted = {}
    /\ call = NoCall
    /\ earlier = NoEarlier
    /\ example = NoExample

\* mutant: the query text is saved as a document of the owner
StartRetrievalStoringQuery(caller, userId, prompt, topK) ==
    /\ req' = [caller |-> caller, userId |-> userId, prompt |-> prompt, topK |-> topK]
    /\ promptEmbedding' = generateEmbedding(prompt)
    /\ queries' = 1
    /\ pc' = "find"
    /\ store' = store \cup {Form(0, userId, generateEmbedding(prompt), clock, NoValue)}
    /\ UNCHANGED <<example, deleted, contextUsed, call, earlier, seen, clock, created, forms, result,
                   path, log, draft, context, status>>

\* lines 83-91: the prompt is vectorized and the candidate query is issued
StartRetrieval(caller, userId, prompt, topK) ==
    /\ req' = [caller |-> caller, userId |-> userId, prompt |-> prompt, topK |-> topK]
    /\ promptEmbedding' = generateEmbedding(prompt)
    /\ queries' = 1
    /\ pc' = "find"
    /\ UNCHANGED <<example, deleted, contextUsed, call, earlier, store, seen, clock, created, forms, result, path, log, draft, context, status>>

\* a direct call of the exported function retrieveRelevantForms(userId, prompt, topK)
CallRetrieve(userId, prompt, topK) ==
    /\ pc = "idle"
    /\ StartRetrieval("direct", userId, prompt, topK)

\* mutant: the try block returns the owner's most recent forms when nothing
\* qualifies
FindOkRecentWhenNoMatch ==
    /\ pc = "find"
    /\ \E fetched \in FindCandidates(store, req.userId) :
          LET ranked == IF Len(fetched) = 0 THEN <<>>
                        ELSE RankAndSelect(fetched, promptEmbedding, req.topK)
          IN  /\ forms' = fetched
              /\ path' = IF Len(fetched) = 0 THEN "empty" ELSE "ranked"
              /\ IF ranked # <<>> THEN result' = ranked
                 ELSE \E recent \in FindRecent(store, req.userId, req.topK) : result' = recent
    /\ seen' = store
    /\ pc' = "returned"
    /\ UNCHANGED <<example, deleted, contextUsed, call, earlier, store, clock, created, req, promptEmbedding, queries, log, draft,
                   context, status>>

\* lines 88-111: the candidate query resolves
FindOk ==
    /\ pc = "find"
    /\ \E fetched \in FindCandidates(store, req.userId) :
          /\ forms' = fetched
          /\ IF Len(fetched) = 0
             THEN result' = <<>> /\ path' = "empty"
             ELSE /\ result' = RankAndSelect(fetched, promptEmbedding, req.topK)
                  /\ path' = "ranked"
    /\ seen' = store
    /\ pc' = "returned"
    /\ UNCHANGED <<example, deleted, contextUsed, call, earlier, store, clock, created, req, promptEmbedding, queries, log, draft,
                   context, status>>

\* mutant: the catch block without its console.error
FindFailSilent ==
    /\ pc = "find"
    /\ queries' = queries + 1
    /\ pc' = "fallback"
    /\ UNCHANGED <<example, deleted, contextUsed, call, earlier, store, seen, clock, created, req, promptEmbedding, forms, result, path,
                   log, draft, context, status>>

\* mutant: the candidate query is issued a second time before the catch
\* block falls back
FindFailRetrying ==
    /\ pc = "find"
    /\ queries' = queries + 1
    /\ IF queries = 1
       THEN pc' = "find" /\ UNCHANGED log
       ELSE pc' = "fallback" /\ log' = log \cup {"Error retrieving relevant forms:"}
    /\ UNCHANGED <<example, deleted, contextUsed, call, earlier, store, seen, clock, created, req,
                   promptEmbedding, forms, result, path, draft, context, status>>

\* lines 113-119: the candidate query rejects; the catch block logs and
\* issues the fallback query
FindFail ==
    /\ pc = "find"
    /\ log' = log \cup {"Error retrieving relevant forms:"}
    /\ queries' = queries + 1
    /\ pc' = "fallback"
    /\ UNCHANGED <<example, deleted, contextUsed, call, earlier, store, seen, clock, created, req, promptEmbedding, forms, result, path,
                   draft, context, status>>

\* lines 116-119: the fallback query resolves
FallbackOk ==
    /\ pc = "fallback"
    /\ \E recent \in FindRecent(store, req.userId, req.topK) : result' = recent
    /\ path' = "fallback"
    /\ seen' = store
    /\ pc' = "returned"
    /\ UNCHANGED <<example, deleted, contextUsed, call, earlier, store, clock, created, req, promptEmbedding, forms, queries, log,
                   draft, context, status>>

\* lines 116-119: the fallback query rejects too, and so does the promise
\* retrieveRelevantForms returned
FallbackFail ==
    /\ pc = "fallback"
    /\ pc' = "threw"
    /\ UNCHANGED <<example, deleted, contextUsed, call, earlier, store, seen, clock, created, req, promptEmbedding, forms, result, path,
                   queries, log, draft, context, status>>

Reset ==
    /\ pc' = "idle"
    /\ req' = NoReq
    /\ promptEmbedding' = NoEmbedding
    /\ forms' = <<>>
    /\ result' = <<>>
    /\ path' = "none"
    /\ queries' = 0
    /\ log' = {}
    /\ draft' = NoDraft
    /\ context' = <<>>
    /\ status' = 0
    /\ seen' = {}
    /\ contextUsed' = 0
    /\ UNCHANGED <<example, deleted, call, earlier, store, clock, created>>

\* the direct caller has its answer
CallEnds ==
    /\ pc \in {"returned", "threw"}
    /\ req.caller = "direct"
    /\ Reset

\* ----------------------------------------------------------- forms router
\* what generateFormSchema may resolve with: whether the schema passes the
\* checks of lines 514-522, its title and fields, and the text
\* extractFormSummary builds from it
GeneratedSchemas ==
    { [valid |-> TRUE, title |-> "Generated", fields |-> <<NameField>>,
       summary |-> TextS, resumeFirst |-> FALSE],
      [valid |-> FALSE, title |-> "Generated", fields |-> <<>>,
       summary |-> <<>>, resumeFirst |-> FALSE] }

\* extractPurpose: no prompt of Prompts contains one of the keywords, which
\* leaves the test of the first field and the default
extractPurpose(prompt, schema) == IF schema.resumeFirst THEN "job" ELSE "general"

\* mutant: the context built from the retrieved forms in reverse order
BuildContextReversed(relevantForms) ==
    [i \in 1..Len(relevantForms) |->
        LET form == relevantForms[Len(relevantForms) + 1 - i]
        IN  [purpose |-> IF form.purpose # NoValue THEN form.purpose ELSE form.title,
             fields |-> [j \in 1..Len(form.schema) |-> form.schema[j].label],
             schema |-> form.schema]]

\* lines 500-504
BuildContext(relevantForms) ==
    [i \in 1..Len(relevantForms) |->
        [purpose |-> IF relevantForms[i].purpose # NoValue
                     THEN relevantForms[i].purpose ELSE relevantForms[i].title,
         fields |-> [j \in 1..Len(relevantForms[i].schema) |->
                        IF relevantForms[i].schema[j].label # NoValue
                        THEN relevantForms[i].schema[j].label
                        ELSE relevantForms[i].schema[j].name],
         schema |-> relevantForms[i].schema]]

\* lines 563-589
NewForm(userId, prompt, schema, now, id) ==
    [id |-> id, userId |-> userId, title |-> schema.title, schema |-> schema.fields,
     embedding |-> generateEmbedding(prompt \o <<32>> \o schema.summary),
     summary |-> schema.summary, purpose |-> extractPurpose(prompt, schema),
     createdAt |-> now]

\* the catch block of POST /generate, lines 605-611
Answer500 ==
    /\ log' = log \cup {"Form generation error:"}
    /\ status' = 500
    /\ pc' = "responded"

\* POST /generate, lines 491-497: the body is parsed (the prompt must have
\* at least one character) and retrieval starts with topK = 5
PostGenerate(userId, prompt) ==
    /\ pc = "idle"
    /\ created < MaxNewForms
    /\ Cardinality(store) < MaxStore
    /\ IF Len(prompt) >= 1
       THEN StartRetrieval("generate", userId, prompt, GenerateTopK)
       ELSE /\ Answer500
            /\ req' = [caller |-> "generate", userId |-> userId, prompt |-> prompt,
                       topK |-> GenerateTopK]
            /\ UNCHANGED <<example, deleted, contextUsed, call, earlier, store, seen, clock, created, promptEmbedding, forms, result, path,
                           queries, draft, context>>

\* line 497: the awaited retrieval rejected
RetrievalThrows ==
    /\ pc = "threw"
    /\ req.caller = "generate"
    /\ Answer500
    /\ UNCHANGED <<example, deleted, contextUsed, call, earlier, store, seen, clock, created, req, promptEmbedding, forms, result, path,
                   queries, draft, context>>

\* mutant: the document is saved before the schema is validated
GenerateSchemaOkSavingFirst(schema) ==
    /\ pc = "returned"
    /\ req.caller = "generate"
    /\ context' = BuildContext(result)
    /\ IF schema.valid
       THEN /\ draft' = NewForm(req.userId, req.prompt, schema, clock, FirstNewId + created)
            /\ pc' = "save"
            /\ UNCHANGED <<log, status, store>>
       ELSE /\ Answer500
            /\ store' = store \cup
                  {NewForm(req.userId, req.prompt, schema, clock, FirstNewId + created)}
            /\ UNCHANGED draft
    /\ UNCHANGED <<example, deleted, contextUsed, call, earlier, seen, clock, created, req,
                   promptEmbedding, forms, result, path, queries>>

\* lines 499-589: the context is built, generateFormSchema resolves, the
\* schema is validated and the document is built
GenerateSchemaOk(schema) ==
    /\ pc = "returned"
    /\ req.caller = "generate"
    /\ context' = BuildContext(result)
    /\ IF schema.valid
       THEN /\ draft' = NewForm(req.userId, req.prompt, schema, clock, FirstNewId + created)
            /\ pc' = "save"
            /\ UNCHANGED <<log, status>>
       ELSE /\ Answer500
            /\ UNCHANGED draft
    /\ UNCHANGED <<example, deleted, contextUsed, call, earlier, store, seen, clock, created, req, promptEmbedding, forms, result, path,
                   queries>>

\* lines 499-511: generateFormSchema rejects
GenerateSchemaThrows ==
    /\ pc = "returned"
    /\ req.caller = "generate"
    /\ context' = BuildContext(result)
    /\ Answer500
    /\ UNCHANGED <<example, deleted, contextUsed, call, earlier, store, seen, clock, created, req, promptEmbedding, forms, result, path,
                   queries, draft>>

\* mutant: the document saved without its embedding
SaveOkWithoutEmbedding ==
    /\ pc = "save"
    /\ store' = store \cup {[draft EXCEPT !.embedding = NoEmbedding]}
    /\ created' = created + 1
    /\ clock' = clock + 1
    /\ status' = 201
    /\ contextUsed' = Len(context)
    /\ pc' = "responded"
    /\ UNCHANGED <<example, deleted, call, earlier, seen, req, promptEmbedding, forms, result, path,
                   queries, log, draft, context>>

\* lines 591-604: form.save() resolves
SaveOk ==
    /\ pc = "save"
    /\ store' = store \cup {draft}
    /\ created' = created + 1
    /\ clock' = clock + 1
    /\ status' = 201
    /\ contextUsed' = Len(context)
    /\ pc' = "responded"
    /\ UNCHANGED <<example, deleted, call, earlier, seen, req, promptEmbedding, forms, result, path,
                   queries, log, draft, context>>

\* line 591: form.save() rejects
SaveFails ==
    /\ pc = "save"
    /\ Answer500
    /\ UNCHANGED <<example, deleted, contextUsed, call, earlier, store, seen, clock, created, req, promptEmbedding, forms, result, path,
                   queries, draft, context>>

\* the response has been sent
RequestEnds ==
    /\ pc = "responded"
    /\ Reset

\* mutant: a GET handler that computes the embedding a form lacks
ReadFormsBackfilling(userId) ==
    /\ store' = { IF f.userId = userId /\ f.embedding = NoEmbedding
                  THEN [f EXCEPT !.embedding = generateEmbedding(f.summary)]
                  ELSE f : f \in store }
    /\ UNCHANGED <<example, seen, clock, created, pc, req, promptEmbedding, forms, result, path,
                   queries, log, draft, context, status, contextUsed, deleted, call, earlier>>

\* the handlers of other requests that only read forms: GET / (lines 615-627),
\* GET /:id (630-645), GET /share/:shareableId (648-659) and the submission
\* routes, which call Form.find, Form.findOne and Form.findById
ReadForms(userId) == UNCHANGED vars

\* mutant: a soft delete, the document is kept in the collection
DeleteFormSoft(userId, id) ==
    /\ Cardinality(deleted) < MaxDeletes
    /\ \E f \in store : f.id = id /\ f.userId = userId
    /\ deleted' = deleted \cup { f \in store : f.id = id /\ f.userId = userId }
    /\ UNCHANGED <<example, store, contextUsed, call, earlier, seen, clock, created, pc, req,
                   promptEmbedding, forms, result, path, queries, log, draft, context,
                   status>>

\* DELETE /:id of another request, lines 662-675: findOneAndDelete({ _id, userId })
\* removes the document and answers 200; `deleted` keeps the removed documents
DeleteForm(userId, id) ==
    /\ Cardinality(deleted) < MaxDeletes
    /\ \E f \in store : f.id = id /\ f.userId = userId
    /\ store' = { f \in store : ~(f.id = id /\ f.userId = userId) }
    /\ deleted' = deleted \cup { f \in store : f.id = id /\ f.userId = userId }
    /\ UNCHANGED <<example, contextUsed, call, earlier, seen, clock, created, pc, req, promptEmbedding, forms, result, path,
                   queries, log, draft, context, status>>

\* POST /generate of another request, served while a call is in flight:
\* what it reads leaves the collection as it is, and its form.save() of line
\* 591 adds the document built at lines 563-589
OtherRequestSaves(userId, prompt, schema) ==
    /\ created < MaxNewForms
    /\ Cardinality(store) < MaxStore
    /\ Len(prompt) >= 1
    /\ schema.valid
    /\ store' = store \cup {NewForm(userId, prompt, schema, clock, FirstNewId + created)}
    /\ created' = created + 1
    /\ clock' = clock + 1
    /\ UNCHANGED <<example, deleted, contextUsed, call, earlier, seen, pc, req, promptEmbedding,
                   forms, result, path, queries, log, draft, context, status>>

\* ------------------------------------------------- the documented example
\* TESTING_GUIDE "Test 9: Context-Aware Memory": four forms generated from the
\* prompts below, then a fifth prompt.  The vectors are kept before the
\* normalisation, in units of 1/WeightUnit (the cosine of two vectors does
\* not change when either is divided by its norm), and the sums of products
\* are natural numbers of Limbs limbs.
WeightUnit == 12252240    \* the least common multiple of 1..18: 1/(index+1) is exact

\* "I need a job application form with resume upload"
PromptJobResume ==
    <<73, 32, 110, 101, 101, 100, 32, 97, 32, 106, 111, 98, 32, 97, 112, 112,
      108, 105, 99, 97, 116, 105, 111, 110, 32, 102, 111, 114, 109, 32, 119,
      105, 116, 104, 32, 114, 101, 115, 117, 109, 101, 32, 117, 112, 108,
      111, 97, 100>>
\* "Create a job application form with cover letter"
PromptJobCover ==
    <<67, 114, 101, 97, 116, 101, 32, 97, 32, 106, 111, 98, 32, 97, 112, 112,
      108, 105, 99, 97, 116, 105, 111, 110, 32, 102, 111, 114, 109, 32, 119,
      105, 116, 104, 32, 99, 111, 118, 101, 114, 32, 108, 101, 116, 116, 101,
      114>>
\* "I need a customer survey form with rating"
PromptSurvey ==
    <<73, 32, 110, 101, 101, 100, 32, 97, 32, 99, 117, 115, 116, 111, 109,
      101, 114, 32, 115, 117, 114, 118, 101, 121, 32, 102, 111, 114, 109, 32,
      119, 105, 116, 104, 32, 114, 97, 116, 105, 110, 103>>
\* "Create a feedback form with comments"
PromptFeedback ==
    <<67, 114, 101, 97, 116, 101, 32, 97, 32, 102, 101, 101, 100, 98, 97, 99,
      107, 32, 102, 111, 114, 109, 32, 119, 105, 116, 104, 32, 99, 111, 109,
      109, 101, 110, 116, 115>>
\* "I need an internship application form with resume and portfolio"
PromptInternship ==
    <<73, 32, 110, 101, 101, 100, 32, 97, 110, 32, 105, 110, 116, 101, 114,
      110, 115, 104, 105, 112, 32, 97, 112, 112, 108, 105, 99, 97, 116, 105,
      111, 110, 32, 102, 111, 114, 109, 32, 119, 105, 116, 104, 32, 114, 101,
      115, 117, 109, 101, 32, 97, 110, 100, 32, 112, 111, 114, 116, 102, 111,
      108, 105, 111>>

ExamplePrompts == <<PromptJobResume, PromptJobCover, PromptSurvey, PromptFeedback>>

\* summaries extractFormSummary may build from what generateFormSchema
\* resolved with: `${title || 'Form'}: ${description || ''} Fields: ... Types: ...`
\* "Form:  Fields:  Types: "
SummaryBare ==
    <<70, 111, 114, 109, 58, 32, 32, 70, 105, 101, 108, 100, 115, 58, 32, 32,
      84, 121, 112, 101, 115, 58, 32>>
\* "Job Application:  Fields: Full Name, Resume Types: text, file"
SummaryJob ==
    <<74, 111, 98, 32, 65, 112, 112, 108, 105, 99, 97, 116, 105, 111, 110,
      58, 32, 32, 70, 105, 101, 108, 100, 115, 58, 32, 70, 117, 108, 108, 32,
      78, 97, 109, 101, 44, 32, 82, 101, 115, 117, 109, 101, 32, 84, 121,
      112, 101, 115, 58, 32, 116, 101, 120, 116, 44, 32, 102, 105, 108, 101>>
\* "Survey:  Fields: Rating Types: number"
SummarySurvey ==
    <<83, 117, 114, 118, 101, 121, 58, 32, 32, 70, 105, 101, 108, 100, 115,
      58, 32, 82, 97, 116, 105, 110, 103, 32, 84, 121, 112, 101, 115, 58, 32,
      110, 117, 109, 98, 101, 114>>
ExampleSummaries == { SummaryBare, SummaryJob, SummarySurvey }

\* lines 32-44 on a text of at most MaxWords tokens
AccumulateExact(words) ==
    LET idx == [i \in 1..Len(words) |-> BucketIndex(words[i])]
        hit == { idx[i] : i \in 1..Len(words) }
        weight == [i \in 1..Len(words) |-> WeightUnit \div i]
    IN  [b \in hit |-> SumOver(weight, { i \in 1..Len(words) : idx[i] = b })]

simpleHashEmbeddingExact(text) == AccumulateExact(SplitWhitespace(ToLowerCase(text)))

RECURSIVE BigSumOver(_, _)
BigSumOver(f, S) ==
    IF S = {} THEN BigOf(0)
    ELSE LET i == CHOOSE j \in S : TRUE
         IN  BigAdd(f[i], BigSumOver(f, S \ {i}))

\* the sum of a[i] * b[i], in units of 1/WeightUnit^2
ExactDot(a, b) ==
    LET common == DOMAIN a \cap DOMAIN b
    IN  BigSumOver([i \in common |-> BigMul(BigOf(a[i]), BigOf(b[i]))], common)

\* cosineSimilarity(a, b) > 0.1: dotProduct > 0 and
\* 100 * dotProduct^2 > normA * normB
SimilarityAboveTenth(a, b) ==
    LET dotProduct == ExactDot(a, b)
        normA == ExactDot(a, a)
        normB == ExactDot(b, b)
    IN  /\ BigCmp(dotProduct, BigOf(0)) = 1
        /\ BigCmp(BigMul(BigOf(100), BigMul(dotProduct, dotProduct)),
                  BigMul(normA, normB)) = 1

\* POST /generate with the next prompt of the example, lines 563-591:
\* generateFormSchema resolves with a schema whose summary is `summary`, and
\* the form is stored with the embedding of `${prompt} ${summary}`
ExampleGenerate(summary) ==
    /\ ~example.done
    /\ Len(example.history) < Len(ExamplePrompts)
    /\ LET prompt == ExamplePrompts[Len(example.history) + 1]
       IN  example' = [example EXCEPT !.history =
                          Append(@, [prompt |-> prompt, summary |-> summary,
                                     embedding |-> simpleHashEmbeddingExact(
                                                       prompt \o <<32>> \o summary)])]
    /\ UNCHANGED <<store, seen, clock, created, pc, req, promptEmbedding, forms, result,
                   path, queries, log, draft, context, status, contextUsed, deleted,
                   call, earlier>>

\* POST /generate with the fifth prompt, lines 497 and 83-111:
\* retrieveRelevantForms(userId, prompt, 5) scores the four forms of the
\* owner; slice(0, 5) keeps all four, so the forms returned are those the
\* filter of line 110 keeps
ExampleRetrieve ==
    /\ ~example.done
    /\ Len(example.history) = Len(ExamplePrompts)
    /\ LET promptVec == simpleHashEmbeddingExact(PromptInternship)
       IN  example' = [example EXCEPT
                          !.done = TRUE,
                          !.retrieved =
                              { i \in 1..Len(example.history) :
                                  SimilarityAboveTenth(promptVec,
                                                       example.history[i].embedding) }]
    /\ UNCHANGED <<store, seen, clock, created, pc, req, promptEmbedding, forms, result,
                   path, queries, log, draft, context, status, contextUsed, deleted,
                   call, earlier>>

\* ------------------------------- a collection larger than the query's limit
\* Form.find({ userId, embedding: { $exists: true, $ne: null } }).limit(limit):
\* the query has no sort, so the store delivers the matching documents in an
\* order of its choosing and the limit keeps the first ones
FindCandidatesWithin(st, userId, limit) ==
    { Limit(o, limit) :
        o \in Orderings({ f \in st : f.userId = userId /\ f.embedding # NoEmbedding }) }

\* lines 88-111 with the limit of 1000 scaled down to ScaledLimit, for an
\* owner who has more candidates than the limit
FindOkScaled ==
    /\ pc = "find"
    /\ \E fetched \in FindCandidatesWithin(store, req.userId, ScaledLimit) :
          /\ forms' = fetched
          /\ IF Len(fetched) = 0
             THEN result' = <<>> /\ path' = "empty"
             ELSE /\ result' = RankAndSelect(fetched, promptEmbedding, req.topK)
                  /\ path' = "ranked"
    /\ seen' = store
    /\ pc' = "returned"
    /\ UNCHANGED <<example, deleted, contextUsed, call, earlier, store, clock, created, req,
                   promptEmbedding, queries, log, draft, context, status>>

\* ------------------------------------- direct calls of the exported functions
\* texts and arrays a caller may pass
Alphabet == {32, 65, 97, 98}    \* " ", "A", "a", "b"

RECURSIVE TextsOfLen(_)
TextsOfLen(n) ==
    IF n = 0 THEN { <<>> }
    ELSE { Append(t, c) : t \in TextsOfLen(n - 1), c \in Alphabet }

Texts == UNION { TextsOfLen(n) : n \in 0..MaxTextLen }

\* tokens long enough for the 32-bit hash to wrap: "polygenelubricants"
\* (hash -2^31), "resume" (negative hash) and "application" (positive hash)
TextMinInt == <<112, 111, 108, 121, 103, 101, 110, 101, 108, 117, 98, 114, 105, 99, 97,
                110, 116, 115>>
TextResume == <<114, 101, 115, 117, 109, 101>>
TextApplication == <<97, 112, 112, 108, 105, 99, 97, 116, 105, 111, 110>>
WrapTexts == { TextMinInt, TextResume, TextApplication }

Entries == {-1, 0, 1}
ArraysOfDim(d) == { [dim |-> d, nz |-> f, den |-> 1] : f \in [0..(d - 1) -> Entries] }
Arrays == UNION { ArraysOfDim(d) : d \in 0..MaxDim }

\* Math.sqrt on the squared norms these arrays have
SquaredNorms == { SumSquares(v) : v \in Arrays } \ {0}
MathSqrt == NoEntries @@ [n \in SquaredNorms |-> DoubleSqrt(n)]
\* Math.sqrt(normA) * Math.sqrt(normB)
SqrtProduct ==
    NoEntries @@ [p \in SquaredNorms \X SquaredNorms |-> DoubleMul(MathSqrt[p[1]], MathSqrt[p[2]])]

\* cosineSimilarity on arrays of small integers: the double it returns is
\* the correctly rounded quotient num / den of the two doubles num and den.
cosineSimilarityDouble(a, b) ==
    IF a.dim # b.dim THEN [num |-> 0, den |-> DoubleOne]
    ELSE LET dotProduct == DotProduct(a, b)
             normA == SumSquares(a)
             normB == SumSquares(b)
         IN  IF normA = 0 \/ normB = 0 THEN [num |-> 0, den |-> DoubleOne]
             ELSE [num |-> dotProduct,
                   den |-> SqrtProduct[<<normA, normB>>]]


system == <<store, seen, clock, created, pc, req, promptEmbedding, forms, result, path,
            queries, log, draft, context, status, contextUsed, deleted, example>>

\* what `earlier` may hold after one more call: the call it held (another
\* call has now come in between), or the generateEmbedding call just replaced
Remembered ==
    { IF earlier = NoEarlier THEN NoEarlier ELSE [earlier EXCEPT !.between = TRUE] }
    \cup (IF call.fn = "generateEmbedding"
          THEN { [text |-> call.text, vector |-> call.vector, between |-> FALSE] }
          ELSE {})

\* mutant: the tokens of the previous call are still in a buffer the next
\* call accumulates into
CallGenerateEmbeddingSharedBuffer(t) ==
    /\ call' = [NoCall EXCEPT !.fn = "generateEmbedding", !.text = t,
                              !.vector = generateEmbedding(
                                  IF call.fn = "generateEmbedding"
                                  THEN call.text \o <<32>> \o t ELSE t)]
    /\ earlier' \in Remembered
    /\ UNCHANGED system

\* generateEmbedding(text), lines 11-25
CallGenerateEmbedding(t) ==
    /\ call' = [NoCall EXCEPT !.fn = "generateEmbedding", !.text = t,
                              !.vector = generateEmbedding(t)]
    /\ earlier' \in Remembered
    /\ UNCHANGED system

\* cosineSimilarity(a, b), lines 57-72
CallCosineSimilarity(x, y) ==
    /\ call' = [NoCall EXCEPT !.fn = "cosineSimilarity", !.a = x, !.b = y,
                              !.similarity = cosineSimilarity(x, y),
                              !.double = cosineSimilarityDouble(x, y)]
    /\ earlier' \in Remembered
    /\ UNCHANGED system

\* the scoring of one form, lines 97-102, in binary64: promptEmbedding is
\* generateEmbedding(prompt) (line 85) and form.embedding was
\* generateEmbedding(embeddingText) when the form was generated (line 572)
CallScore(prompt, embeddingText) ==
    /\ call' = [NoCall EXCEPT !.fn = "score", !.texts = <<prompt, embeddingText>>,
                              !.promptDoubles = generateEmbeddingDouble[prompt],
                              !.formDoubles = generateEmbeddingDouble[embeddingText],
                              !.score = ScoreDouble[<<prompt, embeddingText>>]]
    /\ earlier' \in Remembered
    /\ UNCHANGED system

Next ==
    \/ \E u \in Users, p \in Prompts, k \in KValues : CallRetrieve(u, p, k)
    \/ FindOk
    \/ FindFail
    \/ FallbackOk
    \/ FallbackFail
    \/ CallEnds
    \/ \E u \in Users, p \in Prompts : PostGenerate(u, p)
    \/ RetrievalThrows
    \/ \E g \in GeneratedSchemas : GenerateSchemaOk(g)
    \/ GenerateSchemaThrows
    \/ SaveOk
    \/ SaveFails
    \/ RequestEnds

Spec == Init /\ [][Next]_vars

\* the same system with DELETE /:id and read-only requests of other clients
\* served while a request is in flight; the callers pass fewer prompts
FewPrompts == { TextA, TextSp }

NextWithDelete ==
    \/ \E u \in Users, prompt \in FewPrompts : CallRetrieve(u, prompt, MaxK)
    \/ FindOk
    \/ FindFail
    \/ FallbackOk
    \/ FallbackFail
    \/ CallEnds
    \/ \E u \in Users, prompt \in FewPrompts : PostGenerate(u, prompt)
    \/ RetrievalThrows
    \/ \E g \in GeneratedSchemas : GenerateSchemaOk(g)
    \/ GenerateSchemaThrows
    \/ SaveOk
    \/ SaveFails
    \/ RequestEnds
    \/ \E u \in Users, id \in 1..(FirstNewId + MaxNewForms) : DeleteForm(u, id)
    \/ \E u \in Users : ReadForms(u)

SpecWithDelete == Init /\ [][NextWithDelete]_vars

\* direct calls of generateEmbedding, with direct cosineSimilarity calls in
\* between; no request is in flight and the collection is empty
InitCalls == Init /\ store = {}

NextEmbedding ==
    \/ \E t \in Texts \cup WrapTexts : CallGenerateEmbedding(t)
    \/ \E x \in ArraysOfDim(1), y \in ArraysOfDim(1) : CallCosineSimilarity(x, y)

SpecEmbedding == InitCalls /\ [][NextEmbedding]_vars

\* one direct call of cosineSimilarity
NextSimilarity ==
    \E x \in Arrays, y \in Arrays : call.fn = "none" /\ CallCosineSimilarity(x, y)

SpecSimilarity == InitCalls /\ [][NextSimilarity]_vars

\* the scoring step alone, on the binary64 arrays of generateEmbedding
NextScore ==
    \E prompt \in DoubleTexts, embeddingText \in DoubleTexts : CallScore(prompt, embeddingText)

SpecScore == InitCalls /\ [][NextScore]_vars

\* the documented example: the four forms are generated, each with one of
\* the summaries, then the fifth prompt retrieves
NextExample ==
    \/ \E summary \in ExampleSummaries : ExampleGenerate(summary)
    \/ ExampleRetrieve

SpecExample == InitCalls /\ [][NextExample]_vars

\* direct calls of retrieveRelevantForms while other requests create and
\* delete forms of the same owners
NextConcurrent ==
    \/ \E u \in Users, prompt \in FewPrompts : CallRetrieve(u, prompt, MaxK)
    \/ FindOk
    \/ FindFail
    \/ FallbackOk
    \/ FallbackFail
    \/ CallEnds
    \/ \E u \in Users, prompt \in FewPrompts, g \in GeneratedSchemas :
          OtherRequestSaves(u, prompt, g)
    \/ \E u \in Users, id \in 1..(FirstNewId + MaxNewForms) : DeleteForm(u, id)

SpecConcurrent == Init /\ [][NextConcurrent]_vars

\* direct calls of retrieveRelevantForms with the scaled-down limit
NextScaled ==
    \/ \E u \in Users, prompt \in FewPrompts, k \in 1..MaxK : CallRetrieve(u, prompt, k)
    \/ FindOkScaled
    \/ FindFail
    \/ FallbackOk
    \/ FallbackFail
    \/ CallEnds

SpecScaled == Init /\ [][NextScaled]_vars

\* ================================================================== claims
\* retrieveRelevantForms has resolved with `result`
Resolved == path # "none"
\* ... from one of the return statements of the try block (the fetch succeeded)
FetchSucceeded == path \in {"empty", "ranked"}

SimilarityTo(form) == SimilarityOf(promptEmbedding, form)

\* num / sqrt(den2) > 1/10, stated directly: 10 * num > sqrt(den2)
ExceedsOneTenth(s) == s.num > 0 /\ 100 * s.num * s.num > s.den2

\* no candidate the find delivered scores above 0.1
NoQualifying == \A i \in 1..Len(forms) : ~ExceedsOneTenth(SimilarityTo(forms[i]))

OwnerForms == { f \in seen : f.userId = req.userId }

\* what the try block can resolve with for this call on the collection as read
SimilarityResults ==
    { IF Len(fetched) = 0 THEN <<>> ELSE RankAndSelect(fetched, promptEmbedding, req.topK) :
        fetched \in FindCandidates(seen, req.userId) }

RetrieveErrorLogged == "Error retrieving relevant forms:" \in log

\* C1 (as claimed): for every topK >= 0 the resolved sequence has at most
\* topK forms, on the similarity path and on the fallback path.
C1_AtMostTopK ==
    (Resolved /\ req.topK >= 0) => Len(result) <= req.topK

\* C1 on the similarity path alone, where slice(0, topK) bounds the result
C1_SimilarityPathAtMostTopK ==
    (FetchSucceeded /\ req.topK >= 0) => Len(result) <= req.topK

\* C2: no form in the resolved sequence belongs to another owner than the
\* userId of the call, on either path.
C2_OwnerScoped ==
    Resolved => \A i \in 1..Len(result) : result[i].userId = req.userId

\* C2 witness: a ranked, non-empty result while another owner holds a form
\* that scores higher than everything returned
C2_Witness ==
    /\ path = "ranked"
    /\ result # <<>>
    /\ \E f \in seen :
          /\ f.userId # req.userId
          /\ SimCompare(SimilarityTo(f), SimilarityTo(result[1])) = 1

\* C2 witness on the fallback path: another owner holds forms, none returned
C2_FallbackWitnessed ==
    /\ path = "fallback"
    /\ result # <<>>
    /\ \E f \in seen : f.userId # req.userId

\* C3: when the fetch succeeded the resolved sequence is ordered by
\* non-increasing similarity to the prompt vector and every form in it
\* scores strictly above 0.1.
C3_SortedAboveThreshold ==
    FetchSucceeded =>
        /\ \A i \in 1..Len(result) : ExceedsOneTenth(SimilarityTo(result[i]))
        /\ \A i \in 1..Len(result) - 1 :
              SimCompare(SimilarityTo(result[i]), SimilarityTo(result[i + 1])) >= 0

\* C3 witness: two forms returned in strictly decreasing similarity while a
\* delivered candidate scoring exactly 0.1 is left out
C3_Witness ==
    /\ path = "ranked"
    /\ Len(result) >= 2
    /\ SimCompare(SimilarityTo(result[1]), SimilarityTo(result[2])) = 1
    /\ \E i \in 1..Len(forms) :
          /\ SimilarityTo(forms[i]).num > 0
          /\ CmpFrac(SimilarityTo(forms[i]).num * SimilarityTo(forms[i]).num,
                     SimilarityTo(forms[i]).den2, 1, 100) = 0
          /\ \A j \in 1..Len(result) : result[j] # forms[i]

\* C4 (as claimed): the call has no failed outcome; the promise
\* retrieveRelevantForms returns never rejects, so POST /generate never
\* answers 500 because of retrieval.
C4_NeverRejects ==
    /\ pc # "threw"
    /\ (req.caller = "generate" /\ status = 500 /\ Len(req.prompt) >= 1) => Resolved

\* C5 (as claimed): after a failed fetch the call resolves with the topK
\* most recently created forms of the owner (all of them if fewer), most
\* recent first.
C5_FallbackIsTopKRecent ==
    (path = "fallback" /\ req.topK >= 0) =>
        /\ Len(result) = Min(req.topK, Cardinality(OwnerForms))
        /\ IsRecentFirst(result)
        /\ \A i \in 1..Len(result) : result[i] \in OwnerForms
        /\ \A f \in OwnerForms :
              (\A i \in 1..Len(result) : result[i] # f) =>
                  \A i \in 1..Len(result) : result[i].createdAt >= f.createdAt

\* C6 (as claimed): the returned value tells the two paths apart: what the
\* fallback resolved with is never a value the similarity path resolves with.
C6_ReturnValueTellsPath ==
    path = "fallback" => result \notin SimilarityResults

\* C6 (amended): the marker is the console.error entry of the catch block;
\* it is written exactly when the result is the recency fallback's, and not
\* when the fetch succeeded, an empty result included.
C6_LogTellsPath ==
    Resolved => (RetrieveErrorLogged <=> path = "fallback")

\* C6 witness: both kinds of empty result were produced, one logged
C6_Witness ==
    /\ path = "fallback"
    /\ result = <<>>
    /\ RetrieveErrorLogged
    /\ result \in SimilarityResults

\* C7 (as claimed): no form without an embedding is in the resolved
\* sequence, on either path.
C7_NoFormWithoutEmbedding ==
    Resolved => \A i \in 1..Len(result) : result[i].embedding # NoEmbedding

C10_NonPositiveTopKDoesNothing ==
    (req.caller # "none" /\ req.topK <= 0) =>
        /\ queries = 0
        /\ promptEmbedding = NoEmbedding
        /\ Resolved => result = <<>>

\* C10, the result alone: for topK <= 0 the resolved sequence is empty
C10_NonPositiveTopKIsEmpty ==
    (Resolved /\ req.topK <= 0) => result = <<>>

\* the text has no character other than whitespace (the empty text included)
IsBlank(text) == \A i \in 1..Len(text) : IsSpace(text[i])

\* every component of the array is 0
IsZeroVector(v) == \A i \in DOMAIN v.nz : v.nz[i] = 0

EmbeddingReturned == call.fn = "generateEmbedding"

\* C11 (as claimed): generateEmbedding applied to the empty string or to a
\* whitespace-only text returns the all-zero vector of 128 components.
C11_BlankTextIsZeroVector ==
    (EmbeddingReturned /\ IsBlank(call.text)) =>
        (call.vector.dim = EmbeddingDim /\ IsZeroVector(call.vector))

\* C12 (as claimed): with an empty or whitespace-only prompt and a non-empty
\* candidate set, a call whose fetch succeeded resolves with the empty
\* sequence, for every topK.
C12_BlankPromptRetrievesNothing ==
    (FetchSucceeded /\ IsBlank(req.prompt) /\ forms # <<>>) => result = <<>>

\* the form was stored by POST /generate during the run
Generated(f) == f.id >= FirstNewId

\* the forms of the call's owner in the collection as read that have an embedding
OwnerCandidates == { f \in OwnerForms : f.embedding # NoEmbedding }

C14_DeletedNeverReturned ==
    /\ [](\A d \in deleted : \A f \in store : f.id # d.id)
    /\ [][(path = "none" /\ path' # "none") =>
              \A i \in 1..Len(result') : \A d \in deleted : result'[i].id # d.id]_vars

\* C14 witness: the owner's deleted form would have qualified; the call
\* resolved on the similarity path without it
C14_Witness ==
    /\ path = "ranked"
    /\ req.topK >= 1
    /\ \E d \in deleted :
          /\ d.userId = req.userId
          /\ d \notin seen
          /\ ExceedsOneTenth(SimilarityTo(d))
          /\ \A i \in 1..Len(result) : result[i].id # d.id

\* the same on the fallback path
C14_FallbackWitnessed ==
    /\ path = "fallback"
    /\ req.topK >= 1
    /\ result # <<>>
    /\ \E d \in deleted :
          /\ d.userId = req.userId
          /\ d \notin seen
          /\ \A i \in 1..Len(result) : result[i].id # d.id

\* C15: no step of the system changes the embedding, summary, purpose or
\* userId of a form that stays in the collection.
C15_DerivedFieldsImmutable ==
    [][\A f \in store : \A g \in store' :
          g.id = f.id =>
              /\ g.embedding = f.embedding
              /\ g.summary = f.summary
              /\ g.purpose = f.purpose
              /\ g.userId = f.userId]_vars

\* C15 witness: a form without embedding and a generated form are in the
\* collection after a generation, a deletion and a retrieval
C15_Witness ==
    /\ created >= 1
    /\ deleted # {}
    /\ Resolved
    /\ req.caller = "direct"
    /\ \E f \in store : f.embedding = NoEmbedding
    /\ \E f \in store : Generated(f)

\* POST /generate has built its context from what retrieval resolved with
ContextBuilt == req.caller = "generate" /\ Resolved /\ pc \in {"save", "responded"}

\* C16: the context has one entry per retrieved form, in the order
\* retrieveRelevantForms returned them; entry i holds the i-th form's purpose
\* (its title when it has none), the labels of its fields and its schema; the
\* 201 response's contextUsed is the number of retrieved forms.
C16_ContextMirrorsRetrieval ==
    ContextBuilt =>
        /\ Len(context) = Len(result)
        /\ \A i \in 1..Len(result) :
              /\ context[i].purpose =
                    (IF result[i].purpose = NoValue THEN result[i].title
                     ELSE result[i].purpose)
              /\ Len(context[i].fields) = Len(result[i].schema)
              /\ \A j \in 1..Len(result[i].schema) :
                    context[i].fields[j] \in
                        {result[i].schema[j].label, result[i].schema[j].name}
              /\ context[i].schema = result[i].schema
        /\ status = 201 => contextUsed = Len(result)

\* C16 witness: a 201 response built on two retrieved forms, one with a
\* purpose and one without
C16_Witness ==
    /\ ContextBuilt
    /\ status = 201
    /\ contextUsed = 2
    /\ context[1].purpose # context[2].purpose
    /\ \E i \in 1..2 : result[i].purpose = NoValue

\* C17: every vector generateEmbedding returns has 128 components and is
\* the zero vector or the accumulated bucket vector divided by its Euclidean
\* norm, so that its squared components sum to 1.
C17_UnitOrZeroVector ==
    EmbeddingReturned =>
        /\ call.vector.dim = EmbeddingDim
        /\ DOMAIN call.vector.nz \subseteq 0..(EmbeddingDim - 1)
        /\ \/ IsZeroVector(call.vector)
           \/ /\ call.vector.nz = Accumulate(SplitWhitespace(ToLowerCase(call.text)))
              /\ SumSquares(call.vector) = call.vector.den

\* C17 witness: a vector with two buckets whose norm was not 1 before the division
C17_Witness ==
    /\ EmbeddingReturned
    /\ Cardinality(DOMAIN call.vector.nz) >= 2
    /\ call.vector.den # Scale * Scale
    /\ SumSquares(call.vector) = call.vector.den

\* C17 for the embeddings POST /generate stores
C17_StoredEmbeddingsNormalized ==
    \A f \in store :
        Generated(f) =>
            /\ f.embedding.dim = EmbeddingDim
            /\ SumSquares(f.embedding) = f.embedding.den

SimilarityReturned == call.fn = "cosineSimilarity"

\* C18: cosineSimilarity returns 0 when the two arrays differ in length and
\* when either has zero magnitude, two empty arrays included.
C18_NeutralOnMismatchOrZero ==
    (SimilarityReturned /\ (\/ call.a.dim # call.b.dim
                            \/ IsZeroVector(call.a)
                            \/ IsZeroVector(call.b))) =>
        (call.similarity.num = 0 /\ call.double.num = 0)

\* C18 witness: two non-zero arrays of different lengths whose common
\* components have a non-zero dot product
C18_Witness ==
    /\ SimilarityReturned
    /\ call.a.dim # call.b.dim
    /\ ~IsZeroVector(call.a)
    /\ ~IsZeroVector(call.b)
    /\ DotProduct(call.a, call.b) # 0
    /\ call.similarity.num = 0

\* the same for two empty arrays
C18_EmptyArraysWitnessed ==
    /\ SimilarityReturned
    /\ call.a.dim = 0
    /\ call.b.dim = 0
    /\ call.similarity.num = 0

\* C19 (as claimed), on the doubles the function returns: for arrays of
\* equal length the result is the same with the arguments exchanged, it is
\* 1 for a non-zero array and itself, and it lies in [-1, 1].
C19_SymmetricSelfOneBounded ==
    (SimilarityReturned /\ call.a.dim = call.b.dim) =>
        /\ cosineSimilarityDouble(call.b, call.a) = call.double
        /\ (call.a = call.b /\ ~IsZeroVector(call.a)) =>
              QuotientCmpOne(call.double.num, call.double.den) = 0
        /\ QuotientCmpOne(Abs(call.double.num), call.double.den) <= 0

\* C19, the range alone
C19_WithinMinusOneAndOne ==
    SimilarityReturned => QuotientCmpOne(Abs(call.double.num), call.double.den) <= 0

\* C19 in real arithmetic: symmetry, 1 for an array and itself, and the
\* Cauchy-Schwarz inequality
C19_HoldsInRealArithmetic ==
    (SimilarityReturned /\ call.a.dim = call.b.dim) =>
        /\ cosineSimilarity(call.b, call.a) = call.similarity
        /\ (call.a = call.b /\ ~IsZeroVector(call.a)) =>
              call.similarity.num * call.similarity.num = call.similarity.den2
        /\ call.similarity.num * call.similarity.num <= call.similarity.den2

C21_TiesMostRecentFirst ==
    FetchSucceeded =>
        \A i \in 1..Len(result) - 1 :
            SimCompare(SimilarityTo(result[i]), SimilarityTo(result[i + 1])) = 0 =>
                result[i].createdAt >= result[i + 1].createdAt

\* C21, what the code does with a tie: forms of equal similarity keep the
\* order the store delivered them in
C21_TiesKeepDeliveryOrder ==
    FetchSucceeded =>
        \A i \in 1..Len(result) - 1 :
            SimCompare(SimilarityTo(result[i]), SimilarityTo(result[i + 1])) = 0 =>
                \E m \in 1..Len(forms), n \in 1..Len(forms) :
                    m < n /\ forms[m] = result[i] /\ forms[n] = result[i + 1]

\* C21: a tie was returned with the older form first
C21_OlderFirstReached ==
    /\ path = "ranked"
    /\ \E i \in 1..Len(result) - 1 :
          /\ SimCompare(SimilarityTo(result[i]), SimilarityTo(result[i + 1])) = 0
          /\ result[i].createdAt < result[i + 1].createdAt

\* C22 (as claimed, with the limit scaled down): when the owner has more
\* candidates than the limit, the candidates scored are the most recently
\* created ones; no form left out is more recent than a form scored.
C22_CandidatesAreMostRecent ==
    (path = "ranked" /\ Cardinality(OwnerCandidates) > ScaledLimit) =>
        /\ Len(forms) = ScaledLimit
        /\ \A f \in OwnerCandidates :
              (\A i \in 1..Len(forms) : forms[i] # f) =>
                  \A i \in 1..Len(forms) : forms[i].createdAt >= f.createdAt

\* C22: what the limit does guarantee: at most that many candidates are
\* scored, all of them candidates of the owner
C22_AtMostLimitCandidates ==
    FetchSucceeded =>
        /\ Len(forms) = Min(ScaledLimit, Cardinality(OwnerCandidates))
        /\ \A i \in 1..Len(forms) : forms[i] \in OwnerCandidates

\* C22: the owner's most recent candidate was left out of the scoring while
\* an older one was scored
C22_MostRecentLeftOut ==
    /\ path = "ranked"
    /\ \E f \in OwnerCandidates :
          /\ \A g \in OwnerCandidates : g.createdAt <= f.createdAt
          /\ \A i \in 1..Len(forms) : forms[i] # f
          /\ \E i \in 1..Len(forms) : forms[i].createdAt < f.createdAt

\* the selection as the specification words it: score, sort by similarity
\* descending, drop the entries with similarity <= 0.1, then truncate to the
\* first k
SelectAsSpecified(fetched, promptVec, k) ==
    LET scored ==
            [i \in 1..Len(fetched) |->
                [form |-> fetched[i], similarity |-> SimilarityOf(promptVec, fetched[i])]]
        sorted == SortBySimilarityDesc(scored)
        Qualifies(item) == ExceedsOneTenth(item.similarity)
        kept == SelectSeq(sorted, Qualifies)
        first == SubSeq(kept, 1, Min(k, Len(kept)))
    IN  [i \in 1..Len(first) |-> first[i].form]

\* C24: for every delivered candidate list and every topK >= 0 the sequence
\* the code resolves with (sort, truncate to topK, drop similarity <= 0.1)
\* is the sequence of the specified algorithm (sort, drop similarity <= 0.1,
\* truncate to topK).
C24_SliceFilterCommute ==
    (path = "ranked" /\ req.topK >= 0) =>
        result = SelectAsSpecified(forms, promptEmbedding, req.topK)

\* C24 witness: more candidates than topK were delivered, the truncation cut
\* one off and the filter dropped one of those that were left
C24_Witness ==
    /\ path = "ranked"
    /\ req.topK >= 2
    /\ Len(forms) > req.topK
    /\ Len(result) >= 1
    /\ Len(result) < req.topK
    /\ result = SelectAsSpecified(forms, promptEmbedding, req.topK)

\* a step of retrieveRelevantForms: the call starts, or one of its queries
\* resolves or rejects
RetrievalStep == pc \in {"find", "fallback"} \/ (pc = "idle" /\ pc' = "find")

\* C27: no step of retrieveRelevantForms, on the similarity path or on the
\* fallback path, creates, modifies or deletes a stored form or stores the
\* query text: the collection is the same after the step as before it.
C27_RetrievalReadOnly ==
    [][RetrievalStep => (store' = store /\ created' = created)]_vars

\* C27 witness: a call resolved on the similarity path with forms to return,
\* the collection being what it was when the call read it
C27_Witness ==
    /\ path = "ranked"
    /\ req.caller = "direct"
    /\ result # <<>>
    /\ store = seen
    /\ \A f \in store : f.id # 0

\* the same on the fallback path
C27_FallbackWitnessed ==
    /\ path = "fallback"
    /\ req.caller = "direct"
    /\ result # <<>>
    /\ store = seen
    /\ \A f \in store : f.id # 0

\* the forms POST /generate has added to the collection
StoredByGenerate == { f \in store : Generated(f) }

\* C28: POST /generate stores a form only with its 201 answer: a step of the
\* request that does not end in the 201 answer (retrieval or
\* generateFormSchema threw, the schema failed the validation) leaves the
\* collection unchanged, and when the request has answered 500 the
\* collection holds no form of this request.
C28_NoFormOnFailure ==
    /\ [](status = 500 =>
            /\ Cardinality(StoredByGenerate) = created
            /\ \A f \in store : f.id # FirstNewId + created)
    /\ [][(req'.caller = "generate" /\ status' # 201) => store' = store]_vars

\* C28 witness: retrieval succeeded with forms to show, the generated schema
\* failed the validation, the request answered 500 and built no document
C28_Witness ==
    /\ status = 500
    /\ req.caller = "generate"
    /\ path = "ranked"
    /\ result # <<>>
    /\ context # <<>>
    /\ draft = NoDraft
    /\ "Form generation error:" \in log

\* the same when retrieval threw
C28_RetrievalThrewWitnessed ==
    /\ status = 500
    /\ req.caller = "generate"
    /\ Len(req.prompt) >= 1
    /\ path = "none"
    /\ queries = 2

\* the tokens of the text of the last generateEmbedding call
CallWords == SplitWhitespace(ToLowerCase(call.text))

\* the sum of 1/(i+1), in units of 1/Scale, over the tokens at 0-based
\* position i whose bucket is b (position i is index i + 1 of CallWords)
WeightOfBucket(b) ==
    SumOver([n \in 1..Len(CallWords) |->
                IF BucketIndex(CallWords[n]) = b THEN Scale \div n ELSE 0],
            1..Len(CallWords))

\* C25: before the normalisation (which divides every component by the same
\* number and leaves the numerators as they are) the component of each
\* bucket b in 0..127 is the sum of 1/(i+1) over the tokens at position i
\* whose hash reduced modulo 128 is b; colliding tokens add up and a bucket
\* no token falls in is 0.
C25_BucketSumsOfPositionWeights ==
    EmbeddingReturned =>
        \A b \in 0..(EmbeddingDim - 1) : At(call.vector, b) = WeightOfBucket(b)

\* C25 witness: two tokens collided in one bucket, which holds 1 + 1/2
C25_Witness ==
    /\ EmbeddingReturned
    /\ Len(CallWords) = 2
    /\ BucketIndex(CallWords[1]) = BucketIndex(CallWords[2])
    /\ At(call.vector, BucketIndex(CallWords[1])) = Scale + Scale \div 2

\* C25: two tokens in two buckets, 1 and 1/2
C25_TwoBucketsWitnessed ==
    /\ EmbeddingReturned
    /\ Len(CallWords) = 2
    /\ BucketIndex(CallWords[1]) # BucketIndex(CallWords[2])
    /\ At(call.vector, BucketIndex(CallWords[1])) = Scale
    /\ At(call.vector, BucketIndex(CallWords[2])) = Scale \div 2

\* C30: for every token of the text, Math.abs(hash) % 128 lies in 0..127,
\* the hash being 31 * hash + charCode wrapped to a signed 32-bit integer
\* after each character, also when it wraps to -2^31; no component is
\* written outside the 128 components of the array.
C30_BucketIndexInRange ==
    EmbeddingReturned =>
        /\ \A n \in 1..Len(CallWords) : BucketIndex(CallWords[n]) \in 0..(EmbeddingDim - 1)
        /\ DOMAIN call.vector.nz \subseteq 0..(EmbeddingDim - 1)

\* C30 witness: the token whose hash wraps to -2^31 fell in bucket 0
C30_Witness ==
    /\ EmbeddingReturned
    /\ call.text = TextMinInt
    /\ WordHash(CallWords[1]) = <<32768, 0>>
    /\ DOMAIN call.vector.nz = {0}

\* C30: a token with another negative hash, -934426579, fell in bucket 83
C30_NegativeHashWitnessed ==
    /\ EmbeddingReturned
    /\ call.text = TextResume
    /\ HashIsNegative(WordHash(CallWords[1]))
    /\ DOMAIN call.vector.nz = {83}

\* the forms of `result` are all in S
ResultWithin(S) == \A i \in 1..Len(result) : result[i] \in S

\* C26 (as claimed): a call issues a single fetch and its result holds only
\* forms that were in the collection at the moment of that fetch.
C26_SingleFetchSnapshot ==
    Resolved => (queries = 1 /\ ResultWithin(seen))

\* C26 (amended): a call issues the candidate fetch and, only when that one
\* rejects, the fallback fetch; its result comes from the one fetch that
\* resolved and holds only forms that were in the collection at the moment
\* of that fetch, so a form created after it is not in the result, under
\* every interleaving with the requests that create and delete forms.
C26_ResultFromTheFetchThatResolved ==
    Resolved =>
        /\ queries = (IF path = "fallback" THEN 2 ELSE 1)
        /\ RetrieveErrorLogged <=> queries = 2
        /\ ResultWithin(seen)
        /\ \A f \in store \ seen : \A i \in 1..Len(result) : result[i].id # f.id

\* C26 witness: after the fetch of a call, another request stored a form of
\* the same owner that scores above 0.1 for the prompt; the call's result
\* does not hold it
C26_Witness ==
    /\ path = "ranked"
    /\ queries = 1
    /\ \E f \in store \ seen :
          /\ f.userId = req.userId
          /\ Generated(f)
          /\ ExceedsOneTenth(SimilarityTo(f))
          /\ \A i \in 1..Len(result) : result[i].id # f.id

\* C26: a form stored between the rejected candidate fetch and the fallback
\* fetch is in the result of the fallback
C26_StoredBetweenTheTwoFetches ==
    /\ path = "fallback"
    /\ queries = 2
    /\ \E i \in 1..Len(result) : Generated(result[i])

\* C23 (as claimed): with the four forms of the example in the owner's
\* history, generating from the internship prompt retrieves the two job
\* forms (the first and the second) and neither the survey form nor the
\* feedback form.
C23_RetrievesTheTwoJobForms ==
    example.done => example.retrieved = {1, 2}

\* C23, what the code retrieves whatever the summaries: the first job form
\* and the survey form, whose prompts begin with "I need" as the new prompt
\* does; the second job form and the feedback form score below 0.1
C23_RetrievesByLeadingWords ==
    example.done => example.retrieved = {1, 3}

\* C23: the retrieval of the example was made on the four forms
C23_ExampleRetrieved ==
    /\ example.done
    /\ Len(example.history) = 4
    /\ 3 \in example.retrieved
    /\ 2 \notin example.retrieved
\* C29: every component of every array generateEmbedding returns is >= 0,
\* and the similarity of a prompt's array and a stored array of
\* generateEmbedding lies in [0, 1].  Violated: the quotient of line 71 is
\* rounded above 1 for some pairs.
Scored == call.fn = "score"

ComponentsNotNegative(v) == \A i \in DOMAIN v : CmpDouble(v[i], DoubleZero) >= 0

C29_ScoreWithinZeroAndOne ==
    Scored =>
        /\ ComponentsNotNegative(call.promptDoubles)
        /\ ComponentsNotNegative(call.formDoubles)
        /\ CmpDouble(call.score, DoubleZero) >= 0
        /\ CmpDouble(call.score, DoubleOne) <= 0

\* C29, the part that holds: no component and no similarity is negative
C29_ScoreNeverNegative ==
    Scored =>
        /\ ComponentsNotNegative(call.promptDoubles)
        /\ ComponentsNotNegative(call.formDoubles)
        /\ CmpDouble(call.score, DoubleZero) >= 0

\* a later prompt equal to the text a form was embedded with scores above 1
C29_ScoreAboveOne ==
    /\ Scored
    /\ call.texts[1] = call.texts[2]
    /\ Len(call.texts[2]) > MaxTextLen
    /\ CmpDouble(call.score, DoubleOne) = 1

\* the similarity of two different texts is above 1 as well
C29_DifferentTextsAboveOne ==
    /\ Scored
    /\ call.texts[1] # call.texts[2]
    /\ CmpDouble(call.score, DoubleOne) = 1
====
